---- MODULE Spec2Model ----
(***************************************************************************)
(* The Express/Mongoose backend of the social media app: the auth routes   *)
(* (register, login), authMiddleware, and the post and message handlers    *)
(* behind it, over a document store (users, posts, messages).              *)
(*                                                                         *)
(* One action is one HTTP request handled from start to finish, the        *)
(* middleware included.  resp records the request just handled: what the   *)
(* middleware resolved, whether the route handler ran, every response sent *)
(* and whether the async function rejected without answering.              *)
(***************************************************************************)
EXTENDS Integers, Sequences, FiniteSets, TLC

(* ------------------------------ bounds --------------------------------- *)
\* documents (users + posts + messages) ever created: ObjectIds 1..MaxDocs
MaxDocs == 3
\* number of clock advances, each of TickDays days
MaxTicks == 1
TickDays == 30

(* --------------------------- program constants ------------------------- *)
\* utils/jwt.js: expiresIn '30d', in days
ExpiresIn == 30
\* req.user after User.findById found nothing (null)
NullUser == 0

Usernames == {"n1", "n2"}
Emails    == {"e1", "e2"}
Passwords == {"p1", "p2"}
\* the passwords identities register with; logins try every one of Passwords
NewPasswords == {"p1"}
Salts     == {"s1"}
Contents  == {"c1"}

VARIABLES users, posts, messages, nextId, now, ticks, tokens, removed, creator, plain, resp,
          reqs, role

store == <<users, posts, messages, nextId>>
\* what a request that only answers leaves alone
\* the deletePost requests in flight, and the request at roleMiddleware
aux   == <<reqs, role>>
rest  == <<now, ticks, tokens, removed, creator, plain, aux>>
vars  == <<users, posts, messages, nextId, now, ticks, tokens, removed, creator, plain, resp,
           reqs, role>>

Ids == 1..MaxDocs

(* ------------------------------ bcrypt --------------------------------- *)
\* bcrypt.hash(password, salt): the digest binds the salt and the plaintext
Hash(password, salt) == [salt |-> salt, digest |-> <<salt, password>>]

\* matchPassword's promise tested without await: always truthy
MatchPasswordAny(user, password) == TRUE

\* bcrypt.compare(password, hash): rehash with the stored salt and compare
MatchPassword(user, password) == Hash(password, user.password.salt) = user.password

(* -------------------------------- jwt ---------------------------------- *)
\* a sign whose token is expired when issued
GenerateTokenExpired(id) ==
  [kind |-> "jwt", sub |-> id, iat |-> now, exp |-> now, sig |-> TRUE]

\* jwt.sign({ id }, secret, { expiresIn: '30d' })
GenerateToken(id) ==
  [kind |-> "jwt", sub |-> id, iat |-> now, exp |-> now + ExpiresIn, sig |-> TRUE]

\* a token no jwt.sign produced: not a JWT at all, the empty string, or a JWT
\* whose signature does not match the secret
Garbage    == [kind |-> "garbage", sub |-> 0, iat |-> 0, exp |-> 0, sig |-> FALSE]
EmptyToken == [kind |-> "empty", sub |-> 0, iat |-> 0, exp |-> 0, sig |-> FALSE]
Forged(id) == [kind |-> "jwt", sub |-> id, iat |-> now, exp |-> now + ExpiresIn, sig |-> FALSE]

\* jwt.verify(token, secret): structure, then signature, then expiry; throws
\* (ok = FALSE) on the first failure, otherwise returns the payload's id
JwtVerify(parts) ==
  IF parts = <<>> THEN [ok |-> FALSE, id |-> 0]
  ELSE LET token == parts[1] IN
       IF token.kind # "jwt" THEN [ok |-> FALSE, id |-> 0]
       ELSE IF ~token.sig THEN [ok |-> FALSE, id |-> 0]
       ELSE IF now >= token.exp THEN [ok |-> FALSE, id |-> 0]
       ELSE [ok |-> TRUE, id |-> token.sub]

(* ------------------------------- store --------------------------------- *)
UserById(id)  == {u \in users : u.id = id}
PostById(id)  == {p \in posts : p.id = id}
MessageById(id) == {m \in messages : m.id = id}
UserByEmail(email) == {u \in users : u.email = email}

\* unique: true on username and on email (the indexes of the users collection)
UniqueIndexOK(username, email) ==
  \A u \in users : u.username # username /\ u.email # email

\* .sort({ createdAt: 1 }): oldest first
SortOldestFirst(S) ==
  {s \in [1..Cardinality(S) -> S] :
     /\ \A i, j \in 1..Cardinality(S) : i # j => s[i] # s[j]
     /\ \A i, j \in 1..Cardinality(S) : i < j => s[i].createdAt <= s[j].createdAt}

\* .sort({ createdAt: -1 }): the documents of S, newest first; documents with
\* equal createdAt come in either order
SortNewestFirst(S) ==
  {s \in [1..Cardinality(S) -> S] :
     /\ \A i, j \in 1..Cardinality(S) : i # j => s[i] # s[j]
     /\ \A i, j \in 1..Cardinality(S) : i < j => s[i].createdAt >= s[j].createdAt}

(* ----------------------------- responses ------------------------------- *)
Json(status, message, doc) == [status |-> status, message |-> message, doc |-> doc]

NoHeader == [scheme |-> "none", parts |-> <<>>]
Bearer(parts) == [scheme |-> "Bearer", parts |-> parts]

\* the tokens the server issued, as the clients hold them: the latest one of
\* each identity (a login replaces the token the client held)
Issued == {tokens[id] : id \in DOMAIN tokens}

\* the Authorization headers a client can send: none, another scheme, 'Bearer'
\* alone, 'Bearer ' with an empty token, a token that is no JWT, a JWT signed
\* with another key, and the tokens the server issued
Headers ==
  {NoHeader, [scheme |-> "Basic", parts |-> <<Garbage>>],
   Bearer(<<>>), Bearer(<<EmptyToken>>), Bearer(<<Garbage>>)}
  \cup {Bearer(<<Forged(u.id)>>) : u \in users}
  \cup {Bearer(<<t>>) : t \in Issued}

\* token = req.headers.authorization.split(' ')[1], as a truth value
Truthy(parts) == parts # <<>> /\ parts[1].kind # "empty"

(* --------------------------- authMiddleware ---------------------------- *)
\* The outcome of authMiddleware on a header: the user attached to the
\* request, whether next() was called, the responses sent, and whether the
\* middleware itself rejected (a second res.json after the first was sent).
AuthMiddleware(h) ==
  IF h.scheme = "Bearer"
  THEN LET decoded == JwtVerify(h.parts) IN
       IF decoded.ok
       THEN LET found == UserById(decoded.id) IN
            [user |-> IF found = {} THEN NullUser ELSE (CHOOSE u \in found : TRUE).id,
             next |-> TRUE, sent |-> <<>>, threw |-> FALSE]
       ELSE [user |-> NullUser, next |-> FALSE,
             sent |-> <<Json(401, "Not authorized, token failed", <<>>)>>,
             threw |-> ~Truthy(h.parts)]
  ELSE [user |-> NullUser, next |-> FALSE,
        sent |-> <<Json(401, "Not authorized, no token", <<>>)>>, threw |-> FALSE]


\* The record of one handled request: the handler (or router) that got it, the
\* header and the input, what the middleware resolved, whether the route
\* handler ran, the document its first query loaded, the responses sent,
\* whether an async function rejected, and whether the pre-save hook hashed.
Resp(op, h, arg, gate, handler, found, sent, threw, hashed) ==
  [op |-> op, header |-> h, arg |-> arg, user |-> gate.user, next |-> gate.next,
   handler |-> handler, found |-> found, sent |-> gate.sent \o sent,
   threw |-> gate.threw \/ threw, hashed |-> hashed]

\* /api/auth has no middleware: the handler runs on every request
Public == [user |-> NullUser, next |-> TRUE, sent |-> <<>>, threw |-> FALSE]

\* no request is being answered
Idle == Resp("none", NoHeader, 0, Public, FALSE, <<>>, <<>>, FALSE, FALSE)

\* a set of at most one document as the sequence of its elements
AsSeq(S) == IF S = {} THEN <<>> ELSE <<CHOOSE x \in S : TRUE>>

\* the deletePost requests that can be in flight together
Requests == {1, 2}

\* a deletePost request not yet received: where it stands, the identity the
\* middleware attached, req.params.id, the post findById loaded, the
\* responses sent, whether the handler rejected, and whether the post was in
\* the store, owned by that identity, when the request came in
NoRequest ==
  [pc |-> "idle", user |-> NullUser, id |-> 0, post |-> <<>>, sent |-> <<>>,
   threw |-> FALSE, owned |-> FALSE]

\* no request at roleMiddleware
NoRole == [pc |-> "idle", roles |-> <<>>, user |-> [role |-> "undefined"],
           next |-> FALSE, sent |-> <<>>]

Init ==
  /\ users = {} /\ posts = {} /\ messages = {}
  /\ nextId = 1 /\ now = 0 /\ ticks = 0
  /\ tokens = << >>
  /\ removed = {}
  /\ creator = << >>
  /\ plain = << >>
  /\ resp = Idle
  /\ reqs = [i \in Requests |-> NoRequest]
  /\ role = NoRole

(* ------------------------------ /api/auth ------------------------------ *)
\* a lookup by username instead: User.findOne({ username })
UserExistsByUsername(username, email) == {u \in users : u.username = username}

\* const userExists = await User.findOne({ email })
UserExists(username, email) == UserByEmail(email)

\* the JSON of a registered or logged-in user
AuthJson(status, user, token) ==
  Json(status, "", <<[id |-> user.id, username |-> user.username,
                      email |-> user.email, token |-> token]>>)

RegisterUser ==
  \E username \in Usernames, email \in Emails, password \in NewPasswords, salt \in Salts :
    LET arg == [username |-> username, email |-> email]
        userExists == AsSeq(UserExists(username, email))
    IN IF userExists # <<>>
       THEN /\ resp' = Resp("registerUser", NoHeader, arg, Public, TRUE, userExists,
                            <<Json(400, "User already exists", <<>>)>>, FALSE, FALSE)
            /\ UNCHANGED <<store, rest>>
       ELSE IF ~UniqueIndexOK(username, email)
       THEN \* User.create: the pre-save hook hashed, then the insert hit a unique
            \* index; nothing catches the rejection and nothing is sent
            /\ resp' = Resp("registerUser", NoHeader, arg, Public, TRUE, userExists,
                            <<>>, TRUE, TRUE)
            /\ UNCHANGED <<store, rest>>
       ELSE /\ nextId <= MaxDocs
            /\ LET user == [id |-> nextId, username |-> username, email |-> email,
                            password |-> Hash(password, salt)]
                   token == GenerateToken(nextId)
               IN /\ users' = users \cup {user}
                  /\ tokens' = (nextId :> token) @@ tokens
                  /\ resp' = Resp("registerUser", NoHeader, arg, Public, TRUE, userExists,
                                  <<AuthJson(201, user, token)>>, FALSE, TRUE)
            /\ plain' = (nextId :> password) @@ plain
            /\ nextId' = nextId + 1
            /\ UNCHANGED <<posts, messages, now, ticks, removed, creator, aux>>

LoginUser ==
  \E email \in Emails, password \in Passwords :
    LET arg == [email |-> email, password |-> password]
        found == AsSeq(UserByEmail(email))
    IN IF found # <<>> /\ MatchPassword(found[1], password)
       THEN LET user == found[1]
                token == GenerateToken(user.id)
            IN /\ tokens' = (user.id :> token) @@ tokens
               /\ resp' = Resp("loginUser", NoHeader, arg, Public, TRUE, found,
                               <<AuthJson(200, user, token)>>, FALSE, FALSE)
               /\ UNCHANGED <<store, now, ticks, removed, creator, plain, aux>>
       ELSE /\ resp' = Resp("loginUser", NoHeader, arg, Public, TRUE, found,
                            <<Json(401, "Invalid email or password", <<>>)>>, FALSE, FALSE)
            /\ UNCHANGED <<store, rest>>

(* ---------------------- router.use(authMiddleware) --------------------- *)
\* A request to a router that the middleware answered itself.  The middleware
\* is mounted on the router, ahead of the routes: it runs before the route is
\* matched, whatever the method and the path under the mount point.
Rejected(router, h) ==
  LET gate == AuthMiddleware(h) IN
  /\ ~gate.next
  /\ resp' = Resp(router, h, 0, gate, FALSE, <<>>, <<>>, FALSE, FALSE)
  /\ UNCHANGED <<store, rest>>

PostRoutesRejected == \E h \in Headers : Rejected("postRoutes", h)

MessageRoutesRejected == \E h \in Headers : Rejected("messageRoutes", h)

\* the headers on which the middleware calls next()
Passed == {h \in Headers : AuthMiddleware(h).next}

\* jwt.verify's decoded.id of a header that passed
Decoded(h) == JwtVerify(h.parts).id

(* ------------------------------ /api/posts ----------------------------- *)
\* a post built from the whole body: new Post({ ...req.body })
NewPostFromBody(reqUser, body) == [user |-> body.user, content |-> body.content]

\* an ownership check that compares a value with itself
IsOwnerAlways(post, reqUser) == post.user = post.user

\* an else branch that tells a foreign post from a missing one
DeletePostElseForbidden(found) ==
  IF found # <<>> THEN Json(403, "Not authorized", <<>>)
  ELSE Json(404, "Post not found", <<>>)

\* new Post({ user: req.user._id, content, image }): of the body only content
\* (and image) are read; body.user is an owner field a client may add
NewPost(reqUser, body) == [user |-> reqUser, content |-> body.content]

\* post.user.equals(req.user._id)
IsOwner(post, reqUser) == post.user = reqUser

\* the else branch of deletePost, whatever findById loaded
DeletePostElse(found) == Json(404, "Post not found", <<>>)

\* getPost's answer on an id
GetPostJson(id) ==
  IF PostById(id) # {} THEN Json(200, "", AsSeq(PostById(id)))
  ELSE Json(404, "Post not found", <<>>)

CreatePost ==
  \E h \in Passed, content \in Contents, bodyUser \in {u.id : u \in users} :
    LET gate == AuthMiddleware(h)
        body == [content |-> content, user |-> bodyUser]
    IN IF gate.user = NullUser
       THEN \* req.user._id on null: TypeError, the promise rejects, nothing is sent
            /\ resp' = Resp("createPost", h, body, gate, TRUE, <<>>, <<>>, TRUE, FALSE)
            /\ UNCHANGED <<store, rest>>
       ELSE /\ nextId <= MaxDocs
            /\ LET post == [id |-> nextId, createdAt |-> now] @@ NewPost(gate.user, body)
               IN /\ posts' = posts \cup {post}
                  /\ resp' = Resp("createPost", h, body, gate, TRUE, <<>>,
                                  <<Json(201, "", <<post>>)>>, FALSE, FALSE)
            /\ creator' = (nextId :> Decoded(h)) @@ creator
            /\ nextId' = nextId + 1
            /\ UNCHANGED <<users, messages, now, ticks, tokens, removed, plain, aux>>

GetPosts ==
  \E h \in Passed :
    /\ \E list \in SortNewestFirst(posts) :
         resp' = Resp("getPosts", h, 0, AuthMiddleware(h), TRUE, <<>>,
                      <<Json(200, "", list)>>, FALSE, FALSE)
    /\ UNCHANGED <<store, rest>>

GetPost ==
  \E h \in Passed, id \in Ids :
    /\ resp' = Resp("getPost", h, id, AuthMiddleware(h), TRUE, AsSeq(PostById(id)),
                    <<GetPostJson(id)>>, FALSE, FALSE)
    /\ UNCHANGED <<store, rest>>

DeletePost ==
  \E h \in Passed, id \in Ids :
    LET gate == AuthMiddleware(h)
        found == AsSeq(PostById(id))
    IN IF found = <<>>
       THEN /\ resp' = Resp("deletePost", h, id, gate, TRUE, found,
                            <<DeletePostElse(found)>>, FALSE, FALSE)
            /\ UNCHANGED <<store, rest>>
       ELSE IF gate.user = NullUser
       THEN \* post.user.equals(req.user._id) on a null req.user: TypeError
            /\ resp' = Resp("deletePost", h, id, gate, TRUE, found, <<>>, TRUE, FALSE)
            /\ UNCHANGED <<store, rest>>
       ELSE IF IsOwner(found[1], gate.user)
       THEN /\ posts' = posts \ {found[1]}
            /\ removed' = removed \cup {id}
            /\ resp' = Resp("deletePost", h, id, gate, TRUE, found,
                            <<Json(200, "Post removed", <<>>)>>, FALSE, FALSE)
            /\ UNCHANGED <<users, messages, nextId, now, ticks, tokens, creator, plain, aux>>
       ELSE /\ resp' = Resp("deletePost", h, id, gate, TRUE, found,
                            <<DeletePostElse(found)>>, FALSE, FALSE)
            /\ UNCHANGED <<store, rest>>

(* ---------------------------- /api/messages ---------------------------- *)
\* new Message({ sender: req.user._id, recipient, content }): of the body only
\* recipient and content are read; body.sender is a field a client may add
NewMessage(reqUser, body) ==
  [sender |-> reqUser, recipient |-> body.recipient, content |-> body.content,
   read |-> FALSE]

\* Message.find({ recipient: req.user._id })
FindMessages(reqUser) == {m \in messages : m.recipient = reqUser}

\* getMessage's answer once findById loaded a message: res.json(message)
GetMessageJson(message, reqUser) == Json(200, "", <<message>>)

SendMessage ==
  \E h \in Passed, recipient \in 1..(nextId - 1), content \in Contents,
     bodySender \in {u.id : u \in users} :
    LET gate == AuthMiddleware(h)
        body == [recipient |-> recipient, content |-> content, sender |-> bodySender]
    IN IF gate.user = NullUser
       THEN /\ resp' = Resp("sendMessage", h, body, gate, TRUE, <<>>, <<>>, TRUE, FALSE)
            /\ UNCHANGED <<store, rest>>
       ELSE /\ nextId <= MaxDocs
            /\ LET message == [id |-> nextId, createdAt |-> now] @@ NewMessage(gate.user, body)
               IN /\ messages' = messages \cup {message}
                  /\ resp' = Resp("sendMessage", h, body, gate, TRUE, <<>>,
                                  <<Json(201, "", <<message>>)>>, FALSE, FALSE)
            /\ creator' = (nextId :> Decoded(h)) @@ creator
            /\ nextId' = nextId + 1
            /\ UNCHANGED <<users, posts, now, ticks, tokens, removed, plain, aux>>

GetMessages ==
  \E h \in Passed :
    LET gate == AuthMiddleware(h) IN
    /\ IF gate.user = NullUser
       THEN resp' = Resp("getMessages", h, 0, gate, TRUE, <<>>, <<>>, TRUE, FALSE)
       ELSE \E list \in SortNewestFirst(FindMessages(gate.user)) :
              resp' = Resp("getMessages", h, 0, gate, TRUE, <<>>,
                           <<Json(200, "", list)>>, FALSE, FALSE)
    /\ UNCHANGED <<store, rest>>

GetMessage ==
  \E h \in Passed, id \in Ids :
    LET gate == AuthMiddleware(h)
        found == AsSeq(MessageById(id))
    IN /\ resp' = Resp("getMessage", h, id, gate, TRUE, found,
                       IF found # <<>>
                       THEN <<GetMessageJson(found[1], gate.user)>>
                       ELSE <<Json(404, "Message not found", <<>>)>>,
                       FALSE, FALSE)
       /\ UNCHANGED <<store, rest>>


(* -------------------- deletePost, one await at a time ------------------- *)
\* a remove that is never issued
RemovePostNothing(post) == posts

\* await post.remove(): deleteOne on the post's _id; deleting a document that
\* is gone already matches nothing and succeeds
RemovePost(post) == {p \in posts : p.id # post.id}

\* DELETE /api/posts/:id comes in and passes the middleware
DeleteStart(i) ==
  /\ reqs[i].pc \in {"idle", "done"}
  /\ \E h \in Passed, id \in Ids :
       LET gate == AuthMiddleware(h) IN
       reqs' = [reqs EXCEPT ![i] =
                  [pc |-> "loading", user |-> gate.user, id |-> id, post |-> <<>>,
                   sent |-> <<>>, threw |-> FALSE,
                   owned |-> /\ gate.user # NullUser
                             /\ \E p \in PostById(id) : p.user = gate.user]]
  /\ resp' = Idle
  /\ UNCHANGED <<store, now, ticks, tokens, removed, creator, plain, role>>

\* const post = await Post.findById(req.params.id): the store answers
DeleteLoad(i) ==
  /\ reqs[i].pc = "loading"
  /\ reqs' = [reqs EXCEPT ![i].pc = "loaded", ![i].post = AsSeq(PostById(reqs[i].id))]
  /\ resp' = Idle
  /\ UNCHANGED <<store, now, ticks, tokens, removed, creator, plain, role>>

\* if (post && post.user.equals(req.user._id)): go on to remove, or answer 404
DeleteCheck(i) ==
  /\ reqs[i].pc = "loaded"
  /\ reqs' = [reqs EXCEPT ![i] =
       IF reqs[i].post = <<>>
       THEN [@ EXCEPT !.pc = "done", !.sent = <<DeletePostElse(reqs[i].post)>>]
       ELSE IF reqs[i].user = NullUser
       THEN [@ EXCEPT !.pc = "done", !.threw = TRUE]
       ELSE IF IsOwner(reqs[i].post[1], reqs[i].user)
       THEN [@ EXCEPT !.pc = "removing"]
       ELSE [@ EXCEPT !.pc = "done", !.sent = <<DeletePostElse(reqs[i].post)>>]]
  /\ resp' = Idle
  /\ UNCHANGED <<store, now, ticks, tokens, removed, creator, plain, role>>

\* await post.remove(); res.json({ message: 'Post removed' })
DeleteRemove(i) ==
  /\ reqs[i].pc = "removing"
  /\ posts' = RemovePost(reqs[i].post[1])
  /\ removed' = removed \cup {reqs[i].id}
  /\ reqs' = [reqs EXCEPT ![i].pc = "done",
                          ![i].sent = <<Json(200, "Post removed", <<>>)>>]
  /\ resp' = Idle
  /\ UNCHANGED <<users, messages, nextId, now, ticks, tokens, creator, plain, role>>

(* ---------------------------- roleMiddleware --------------------------- *)
MaxRoles == 2

\* the role tags a route can permit; a user document has no role field (the
\* schema declares none), so req.user.role is a tag only if something set it
RoleTags  == {"admin", "moderator", "user"}
UserRoles == RoleTags \cup {"undefined"}

\* the arrays roleMiddleware can be built with
RoleLists == UNION {[1..n -> RoleTags] : n \in 0..MaxRoles}

\* a test of the array's length instead of its elements
IncludesAny(list, x) == list # <<>>

\* roles.includes(x)
Includes(list, x) == \E i \in 1..Len(list) : list[i] = x

\* roleMiddleware(roles)(req, res, next) on a request with a user attached
RoleMiddleware ==
  /\ role.pc = "start"
  /\ role' = IF ~Includes(role.roles, role.user.role)
             THEN [role EXCEPT !.pc = "done",
                               !.sent = <<Json(403, "Access forbidden", <<>>)>>]
             ELSE [role EXCEPT !.pc = "done", !.next = TRUE]
  /\ UNCHANGED <<store, now, ticks, tokens, removed, creator, plain, resp, reqs>>

\* a request with a user attached arrives at roleMiddleware(roles)
InitRole ==
  /\ users = {} /\ posts = {} /\ messages = {}
  /\ nextId = 1 /\ now = 0 /\ ticks = 0
  /\ tokens = << >>
  /\ removed = {}
  /\ creator = << >>
  /\ plain = << >>
  /\ resp = Idle
  /\ reqs = [i \in Requests |-> NoRequest]
  /\ \E roles \in RoleLists, r \in UserRoles :
       role = [pc |-> "start", roles |-> roles, user |-> [role |-> r],
               next |-> FALSE, sent |-> <<>>]

(* ----------------------------- environment ----------------------------- *)
\* time passes between requests
Tick ==
  /\ ticks < MaxTicks
  /\ now' = now + TickDays
  /\ ticks' = ticks + 1
  /\ resp' = Idle
  /\ UNCHANGED <<store, tokens, removed, creator, plain, aux>>

\* A user document leaves the users collection of the database.  No route does
\* it; the tokens are stateless and stay with their clients.
StoreRemoveUser ==
  \E u \in users :
    /\ users' = users \ {u}
    /\ resp' = Idle
    /\ UNCHANGED <<posts, messages, nextId, rest>>

(* =============================== claims ================================ *)
Status(r) == IF r.sent = <<>> THEN 0 ELSE r.sent[1].status

PostNotFound == <<Json(404, "Post not found", <<>>)>>

\* C1: deletePost on a post by its owner answers 200, the post is gone and
\* every later getPost on its id answers 404; deletePost by another identity
\* answers 404 and leaves the post in the store, where getPost returns it.
C1_DeleteByOwnerOnly ==
  /\ (resp.op = "deletePost" /\ resp.user # NullUser /\ resp.found # <<>>) =>
       IF resp.found[1].user = resp.user
       THEN /\ Status(resp) = 200 /\ Len(resp.sent) = 1
            /\ resp.arg \in removed
       ELSE /\ resp.sent = PostNotFound
            /\ resp.found[1] \in posts
            /\ GetPostJson(resp.arg) = Json(200, "", resp.found)
  /\ \A id \in removed : PostById(id) = {} /\ GetPostJson(id).status = 404
  /\ (resp.op = "getPost" /\ resp.arg \in removed) => resp.sent = PostNotFound

\* a getPost answered 404 on the id of a post its owner deleted earlier
C1_Witness ==
  resp.op = "getPost" /\ resp.arg \in removed /\ resp.sent = PostNotFound

\* C2: getMessage on a stored message by a resolved identity that is neither
\* its sender nor its recipient answers 404 and never returns the message;
\* only the sender or the recipient gets 200 with it.
C2_ThirdPartyGets404 ==
  (resp.op = "getMessage" /\ resp.user # NullUser /\ resp.found # <<>>) =>
    IF resp.user \in {resp.found[1].sender, resp.found[1].recipient}
    THEN resp.sent = <<Json(200, "", resp.found)>>
    ELSE resp.sent = <<Json(404, "Message not found", <<>>)>>

\* the header of a request carries a token the server signed, not yet expired
ValidlySigned(h) ==
  /\ h.scheme = "Bearer" /\ h.parts # <<>>
  /\ h.parts[1] \in Issued
  /\ now < h.parts[1].exp

\* C3: on the protected routes a handler runs only after the middleware has
\* attached an existing identity; a request with a missing or malformed
\* header, an invalid or expired token, or a validly signed token of an
\* identity no longer in the store is answered 401 and reaches no handler.
C3_HandlerOnlyWithIdentity ==
  (resp.op \notin {"none", "registerUser", "loginUser"}) =>
    LET identified == /\ ValidlySigned(resp.header)
                      /\ UserById(resp.header.parts[1].sub) # {}
    IN /\ resp.handler => identified /\ resp.user = resp.header.parts[1].sub
       /\ ~identified => ~resp.handler /\ Status(resp) = 401 /\ Len(resp.sent) = 1

\* C4: a created post's owner, and a sent message's sender, is the identity
\* the middleware resolved from the request's token, whatever owner or sender
\* the body carries; no stored post or message has another owner than the
\* identity whose token created it.
C4_OwnerFromToken ==
  /\ (resp.op = "createPost" /\ Status(resp) = 201) =>
       /\ resp.sent[1].doc[1].user = resp.user
       /\ resp.user = resp.header.parts[1].sub
       /\ resp.sent[1].doc[1] \in posts
  /\ (resp.op = "sendMessage" /\ Status(resp) = 201) =>
       /\ resp.sent[1].doc[1].sender = resp.user
       /\ resp.user = resp.header.parts[1].sub
       /\ resp.sent[1].doc[1] \in messages
  /\ \A p \in posts : p.user = creator[p.id]
  /\ \A m \in messages : m.sender = creator[m.id]

\* a post was created by a request whose body named another owner
C4_Witness ==
  /\ resp.op = "createPost" /\ Status(resp) = 201
  /\ resp.arg.user # resp.user

\* the step answers a registerUser request
RegisterStep == resp'.op = "registerUser"

EmailTaken(email) == \E u \in users : u.email = email
UsernameTaken(username) == \E u \in users : u.username = username

UserExistsJson == <<Json(400, "User already exists", <<>>)>>

\* C5: a registerUser request whose email is that of a stored identity is
\* answered 400 and leaves the stored identities as they were; no two stored
\* identities share an email.
C5_DuplicateEmailRejected ==
  /\ [](\A u, v \in users : u.email = v.email => u = v)
  /\ [][(RegisterStep /\ EmailTaken(resp'.arg.email)) =>
          (resp'.sent = UserExistsJson /\ users' = users)]_vars

\* a registration with a stored email was answered 400
C5_Witness ==
  /\ resp.op = "registerUser" /\ resp.sent = UserExistsJson
  /\ EmailTaken(resp.arg.email)

\* C6: a registerUser request whose username or whose email is taken by a
\* stored identity is answered 400, and the password is not hashed on it.
C6_DuplicateFailsBeforeHashing ==
  [][(RegisterStep /\ (UsernameTaken(resp'.arg.username) \/ EmailTaken(resp'.arg.email))) =>
       (resp'.sent = UserExistsJson /\ ~resp'.hashed)]_vars

\* C7: a registerUser request whose username and email are both unused is
\* answered 201, adds exactly one identity, and the token of the response
\* resolves, at the middleware, to the new identity's id.
C7_RegisterIssuesOwnToken ==
  [][(RegisterStep /\ ~UsernameTaken(resp'.arg.username) /\ ~EmailTaken(resp'.arg.email)) =>
       /\ Status(resp') = 201 /\ Len(resp'.sent) = 1
       /\ \E new \in users' \ users :
            /\ users' = users \cup {new}
            /\ new.id \notin {u.id : u \in users}
            /\ new.username = resp'.arg.username /\ new.email = resp'.arg.email
            /\ resp'.sent[1].doc[1].id = new.id
            /\ (AuthMiddleware(Bearer(<<resp.sent[1].doc[1].token>>)))'
                 = [user |-> new.id, next |-> TRUE, sent |-> <<>>, threw |-> FALSE]]_vars

\* a second identity registered and was answered 201 with its token
C7_Witness ==
  /\ resp.op = "registerUser" /\ Status(resp) = 201
  /\ Cardinality(users) = 2
  /\ AuthMiddleware(Bearer(<<resp.sent[1].doc[1].token>>)).user = resp.sent[1].doc[1].id

InvalidCredentials == <<Json(401, "Invalid email or password", <<>>)>>

\* the stored identities with this email that registered with this password
Credentials(email, password) ==
  {u \in users : u.email = email /\ plain[u.id] = password}

\* C8: loginUser answers 200 with a token of that identity for a stored email
\* with its password; for a stored email with a wrong password it answers as
\* for an email that is not stored: 401 with the same body.
C8_LoginNonEnumerable ==
  (resp.op = "loginUser") =>
    LET match == Credentials(resp.arg.email, resp.arg.password) IN
    IF match # {}
    THEN /\ Status(resp) = 200 /\ Len(resp.sent) = 1
         /\ \E u \in match :
              /\ resp.sent[1].doc[1].id = u.id
              /\ AuthMiddleware(Bearer(<<resp.sent[1].doc[1].token>>)).user = u.id
    ELSE resp.sent = InvalidCredentials

\* a login with a stored email and a wrong password was answered 401
C8_Witness ==
  /\ resp.op = "loginUser" /\ resp.sent = InvalidCredentials
  /\ EmailTaken(resp.arg.email)
  /\ Credentials(resp.arg.email, resp.arg.password) = {}

\* C9: deletePost by an identity answers a post owned by another identity
\* exactly as it answers an id with no post: 404 'Post not found', never 403.
C9_NotOwnerLooksMissing ==
  (/\ resp.op = "deletePost" /\ resp.user # NullUser
   /\ (resp.found = <<>> \/ resp.found[1].user # resp.user)) =>
     resp.sent = PostNotFound

\* an identity's deletePost on another identity's post was answered 404
C9_Witness ==
  /\ resp.op = "deletePost" /\ resp.user # NullUser
  /\ resp.found # <<>> /\ resp.found[1].user # resp.user
  /\ resp.sent = PostNotFound

\* C10: getMessages by an identity returns exactly the stored messages whose
\* recipient it is, each once, newest first.
C10_InboxNewestFirst ==
  (resp.op = "getMessages" /\ resp.user # NullUser) =>
    /\ Status(resp) = 200 /\ Len(resp.sent) = 1
    /\ LET list == resp.sent[1].doc
           inbox == {m \in messages : m.recipient = resp.user}
       IN /\ {list[i] : i \in 1..Len(list)} = inbox
          /\ Len(list) = Cardinality(inbox)
          /\ \A i, j \in 1..Len(list) : i < j => list[i].createdAt >= list[j].createdAt

\* an inbox of two messages of different dates was returned
C10_Witness ==
  /\ resp.op = "getMessages" /\ Status(resp) = 200
  /\ Len(resp.sent[1].doc) = 2
  /\ resp.sent[1].doc[1].createdAt > resp.sent[1].doc[2].createdAt

Next ==
  \/ RegisterUser \/ LoginUser
  \/ PostRoutesRejected \/ MessageRoutesRejected
  \/ CreatePost \/ GetPosts \/ GetPost \/ DeletePost
  \/ SendMessage \/ GetMessages \/ GetMessage
  \/ Tick
  \/ StoreRemoveUser

Spec == Init /\ [][Next]_vars

\* C11: two deletePost requests of the owner on the same post, in flight
\* together, each answer 200 or 404 whatever the interleaving, and once both
\* have answered the post is not in the store; both may answer 200.
C11_ConcurrentDeletes ==
  \A i, j \in Requests :
    (i # j /\ reqs[i].owned /\ reqs[j].owned /\ reqs[i].id = reqs[j].id) =>
      /\ reqs[i].pc = "done" =>
           /\ Len(reqs[i].sent) = 1 /\ ~reqs[i].threw
           /\ reqs[i].sent[1].status \in {200, 404}
      /\ (reqs[i].pc = "done" /\ reqs[j].pc = "done") => PostById(reqs[i].id) = {}

\* both requests of the owner on the same post answered 200
C11_Witness ==
  /\ reqs[1].owned /\ reqs[2].owned /\ reqs[1].id = reqs[2].id
  /\ \A i \in Requests :
       reqs[i].pc = "done" /\ reqs[i].sent = <<Json(200, "Post removed", <<>>)>>

\* the requests of a specification with deletePost taken one await at a time
RaceNext ==
  \/ RegisterUser
  \/ CreatePost
  \/ \E i \in Requests : DeleteStart(i)
  \/ \E i \in Requests : DeleteLoad(i)
  \/ \E i \in Requests : DeleteCheck(i)
  \/ \E i \in Requests : DeleteRemove(i)

SpecRace == Init /\ [][RaceNext]_vars

\* C12: a request whose store operation throws (here User.create rejected by
\* the unique index on username) is still answered, with a 500.
C12_StoreErrorAnswered500 ==
  [][(RegisterStep /\ ~EmailTaken(resp'.arg.email) /\ UsernameTaken(resp'.arg.username)) =>
       (Len(resp'.sent) = 1 /\ Status(resp') = 500)]_vars

\* C13: roleMiddleware(R) calls next exactly when the role of the attached
\* identity is in R, and otherwise answers 403 without calling next.
C13_RoleGate ==
  (role.pc = "done") =>
    LET permitted == role.user.role \in {role.roles[i] : i \in 1..Len(role.roles)}
    IN IF permitted
       THEN role.next /\ role.sent = <<>>
       ELSE ~role.next /\ role.sent = <<Json(403, "Access forbidden", <<>>)>>

\* an identity with a role outside a non-empty R was answered 403
C13_Witness ==
  /\ role.pc = "done" /\ role.roles # <<>> /\ role.user.role \in RoleTags
  /\ role.sent = <<Json(403, "Access forbidden", <<>>)>> /\ ~role.next

NextRole == RoleMiddleware

SpecRole == InitRole /\ [][NextRole]_vars

\* C14: on every request authMiddleware either calls next and sends nothing,
\* or sends one 401 and does not call next; it makes no second res.json.
C14_ExactlyOneOutcome ==
  (resp.op \notin {"none", "registerUser", "loginUser"}) =>
    IF resp.next
    THEN resp.handler
    ELSE ~resp.handler /\ Len(resp.sent) = 1 /\ Status(resp) = 401 /\ ~resp.threw
====
